---- MODULE Spec2Model ----
(***************************************************************************)
(* Model of solaar's command-line dispatch layer, lib/solaar/cli/__init__.py *)
(* : the resolvers _find_receiver and _find_device, the handle builders     *)
(* _receivers / _receivers_and_devices and the dispatcher run.              *)
(*                                                                         *)
(* Python strings are sequences of one-character strings, so that          *)
(* str.lower(), the operator "in" on strings, == and int() are computed    *)
(* and not assumed.  A value that may be Python's None is an option: None  *)
(* or Some(v).                                                             *)
(***************************************************************************)
EXTENDS Integers, Sequences, FiniteSets, TLC

VARIABLES
    receivers,      \* the handle list given to a resolver
    name,           \* the token given to a resolver
    fr_pc,          \* _find_receiver: "idle" | "call" | "returned"
    fr_result,      \* _find_receiver: the returned entry, or None
    fd_pc,          \* _find_device generator: where it is suspended
    number,         \* _find_device: the local `number`
    ri,             \* _find_device: position of `r` in receivers (outer loop)
    di,             \* _find_device: position of `dev` in the device set (inner loop)
    count,          \* _find_device: the local `count`
    yielded,        \* _find_device: the devices yielded so far, in order
    io,             \* _find_device: the hardware calls made so far, in order
    cli_args,       \* run: its cli_args parameter (<<>> for None or an empty list)
    argv_action,    \* run: the subcommand on the process command line, or None
    hidraw_path,    \* run: its hidraw_path parameter, or None
    bus,            \* the descriptors the device-management library enumerates
    run_pc,         \* run: "idle" | "parse" | "build" | "check" | "in_action" |
                    \*      "returned" | "exited"
    action,         \* run: the local `action`, or None
    args,           \* run: the attribute names of the parsed namespace `args`
    bi,             \* the builder generator: position in the enumeration
    built,          \* the bus positions a create_* call was made for, in order
    c,              \* run: the handle list `c`
    imported,       \* the action module loaded by import_module, or None
    invoked,        \* the handle lists m.run was called with, in order
    fr_call,        \* action module: its call of _find_receiver, or None
    gen,            \* action module: the _find_device generator it holds, or None
    left,           \* the exception that left m.run, or None
    exit_status,    \* the process exit status, or None while running
    stderr          \* what was written to the error stream, in order

frVars == <<fr_pc, fr_result>>
fdVars == <<fd_pc, number, ri, di, count, yielded, io>>
runVars == <<cli_args, argv_action, hidraw_path, bus, run_pc, action, args, bi, built,
             c, imported, invoked, fr_call, gen, left, exit_status, stderr>>
vars == <<receivers, name, frVars, fdVars, runVars>>

None == <<>>
Some(v) == <<v>>
Val(o) == o[1]

(***************************************************************************)
(* Strings                                                                 *)
(***************************************************************************)
Digits == {"0", "1", "2", "3", "4", "5", "6", "7", "8", "9"}
Letters == {"a", "A", "b", "B"}
Alphabet == Digits \cup Letters

\* str.lower() on one character
LowerChar(ch) ==
    CASE ch = "A" -> "a"
      [] ch = "B" -> "b"
      [] OTHER -> ch

\* str.lower()
Lower(s) == [p \in 1..Len(s) |-> LowerChar(s[p])]

\* sub in s, for strings
Contains(sub, s) ==
    \E p \in 0..(Len(s) - Len(sub)) : SubSeq(s, p + 1, p + Len(sub)) = sub

\* int(ch) for a one-character string: Some(value), or None when int() raises ValueError
IntOfChar(ch) ==
    CASE ch = "0" -> Some(0) [] ch = "1" -> Some(1) [] ch = "2" -> Some(2)
      [] ch = "3" -> Some(3) [] ch = "4" -> Some(4) [] ch = "5" -> Some(5)
      [] ch = "6" -> Some(6) [] ch = "7" -> Some(7) [] ch = "8" -> Some(8)
      [] ch = "9" -> Some(9)
      [] OTHER -> None

(***************************************************************************)
(* Bounds                                                                  *)
(***************************************************************************)
MaxHandles == 2      \* longest handle list
MaxTokenLen == 2     \* longest token
MaxBus == 2          \* most descriptors on the bus

\* strings over a set of characters, of length lo..hi
StringsOver(chars, lo, hi) == UNION {[1..n -> chars] : n \in lo..hi}

\* the tokens: every single character, and the longer strings over a few characters
Tokens == StringsOver(Alphabet, 1, 1) \cup StringsOver({"a", "A", "3"}, 2, MaxTokenLen)

(***************************************************************************)
(* Handles of the external device-management library: a Device has serial, *)
(* codename, kind and name; a Receiver has name, a nullable serial,        *)
(* count(), indexing by slot and iteration over its devices.               *)
(***************************************************************************)
Dev(nm, sr, cn, kd) ==
    [name |-> nm, serial |-> Some(sr), codename |-> cn, kind |-> kd]

d1 == Dev(<<"A", "3">>, <<"3", "A">>, <<"a", "a">>, <<"b">>)
d2 == Dev(<<"B", "a">>, <<"3", "3">>, <<"b", "b">>, <<"a">>)
d3 == Dev(<<"a", "A">>, <<"A">>, <<"3", "a">>, <<"b">>)
d4 == Dev(<<"3", "b">>, <<"a", "b">>, <<"a", "3">>, <<"a">>)

NoSlots == [n \in 1..6 |-> None]

\* a receiver: devs is what iterating it produces, slots is what r[n] returns,
\* cnt is what r.count() reports
Rcv(nm, sr, cnt, devs, slots) ==
    [isDevice |-> FALSE, name |-> nm, serial |-> sr, cnt |-> cnt, devs |-> devs,
     slots |-> slots]

\* a wired device in the handle list
Wired(d) ==
    [isDevice |-> TRUE, name |-> d.name, serial |-> d.serial, codename |-> d.codename,
     kind |-> d.kind]

Handles ==
    { Rcv(<<"A", "b">>, Some(<<"3", "A">>), 2, <<d1, d2>>, [NoSlots EXCEPT ![1] = Some(d1), ![3] = Some(d2)]),
      Rcv(<<"a", "a">>, None, 1, <<d2, d1>>, [NoSlots EXCEPT ![2] = Some(d2), ![5] = Some(d1)]),
      Rcv(<<"B", "3">>, Some(<<"a", "a">>), 0, <<d1>>, [NoSlots EXCEPT ![4] = Some(d1)]),
      Rcv(<<"a">>, Some(<<"B">>), 0, <<>>, NoSlots),
      Rcv(<<"b", "A">>, Some(<<"a", "3">>), 2, <<d2>>, [NoSlots EXCEPT ![6] = Some(d2)]),
      Wired(d3),
      Wired(d4) }

HandleLists == UNION {[1..n -> Handles] : n \in 1..MaxHandles}

(***************************************************************************)
(* _find_receiver                                                          *)
(***************************************************************************)
\* ReceiverMatches with the token lower-cased as well
ReceiverMatchesFoldsToken(r, nm) ==
    \/ Contains(Lower(nm), Lower(r.name))
    \/ (r.serial # None /\ Lower(nm) = Lower(Val(r.serial)))

\* the condition of the if in the loop body
ReceiverMatches(r, nm) ==
    \/ Contains(nm, Lower(r.name))
    \/ (r.serial # None /\ nm = Lower(Val(r.serial)))

\* the for loop from position p on: the first entry that matches is returned,
\* falling off the end of the function returns None
RECURSIVE FindReceiverFrom(_, _, _)
FindReceiverFrom(rs, nm, p) ==
    IF p > Len(rs) THEN None
    ELSE IF ReceiverMatches(rs[p], nm) THEN Some([pos |-> p, obj |-> rs[p]])
    ELSE FindReceiverFrom(rs, nm, p + 1)

\* the two assert statements: None when both pass, else the line that raises
FindReceiverAssert(rs, nm) ==
    IF rs = <<>> THEN Some(143) ELSE IF nm = <<>> THEN Some(144) ELSE None

_find_receiver(rs, nm) == FindReceiverFrom(rs, nm, 1)

(***************************************************************************)
(* _find_device, a generator: it runs from one yield to the next each time *)
(* its consumer asks for a result.  fd_pc is where it stands:              *)
(*   "created"     the generator object exists, its body has not started   *)
(*   "entry"       top of the outer loop, about to take receivers[ri]       *)
(*   "slot_yield"  suspended at the yield of line 171                       *)
(*   "scan"        top of the inner loop, about to take device di           *)
(*   "scan_yield"  suspended at the yield of line 185                       *)
(*   "done"        the body ended (StopIteration)                           *)
(*   "raised"      an assert of the body failed                             *)
(*   "closed"      the consumer dropped the generator at a yield            *)
(***************************************************************************)
\* the assert statements of lines 152-153: None when both pass
FindDeviceAssert(rs, nm) ==
    IF rs = <<>> THEN Some(152) ELSE IF nm = <<>> THEN Some(153) ELSE None

\* SlotNumber with the upper limit tested as >= 6
SlotNumberBelowSix(nm) ==
    IF Len(nm) = 1
    THEN LET v == IntOfChar(nm[1])
         IN IF v = None THEN None
            ELSE IF Val(v) >= 6 THEN None
            ELSE v
    ELSE None

\* lines 155-164: the slot number a token stands for, or None
SlotNumber(nm) ==
    IF Len(nm) = 1
    THEN LET v == IntOfChar(nm[1])
         IN IF v = None THEN None
            ELSE IF Val(v) > 6 THEN None
            ELSE v
    ELSE None

\* Truthy as `if number > 1`
TruthyAboveOne(num) == num # None /\ Val(num) > 1

\* `if number:` a number that is None or 0 is false
Truthy(num) == num # None /\ Val(num) # 0

\* lines 179-184: the condition under which the scan yields dev
DeviceMatches(dev, nm) ==
    \/ nm = Lower(Val(dev.serial))
    \/ nm = Lower(dev.codename)
    \/ nm = Lower(dev.kind)
    \/ Contains(nm, Lower(dev.name))

\* what `for dev in r` goes through: a receiver's own iteration, or [r] for a
\* wired device (line 175)
DeviceSet(r) == IF r.isDevice THEN <<r>> ELSE r.devs

\* the hardware calls, as recorded in io
IoIndex(p, n) == [op |-> "index", entry |-> p, slot |-> n]
IoCount(p) == [op |-> "count", entry |-> p, slot |-> 0]
IoPing(p) == [op |-> "ping", entry |-> p, slot |-> 0]

\* a yielded device; entry, via and at record where it came from: the position
\* of its entry in the handle list, the yield statement ("slot": line 171, "scan":
\* line 185) and, for the scan, its position in the device set
Yield(p, dev, via, k) == [entry |-> p, dev |-> dev, via |-> via, at |-> k]

\* IsWired with the test of line 167 lost: every entry takes the wired branch
IsWiredAlways(r) == r.isDevice \/ ~r.isDevice

\* line 167 / 173: the branch taken for a wired device
IsWired(r) == r.isDevice

\* ScanBreaks leaving the loop one device early
ScanBreaksEarly(n) == n <= 1

\* the loop test of line 187, on the count after line 186
ScanBreaks(n) == n = 0

FdIdle ==
    /\ fd_pc = "idle" /\ number = None /\ ri = 0 /\ di = 0 /\ count = 0
    /\ yielded = <<>> /\ io = <<>>

RunIdle ==
    /\ cli_args = <<>> /\ argv_action = None /\ hidraw_path = None /\ bus = <<>>
    /\ run_pc = "idle" /\ action = None /\ args = {} /\ bi = 0 /\ built = <<>>
    /\ c = <<>> /\ imported = None /\ invoked = <<>> /\ fr_call = None /\ gen = None
    /\ left = None /\ exit_status = None /\ stderr = <<>>

InitFD ==
    /\ receivers \in HandleLists
    /\ name \in Tokens
    /\ fr_pc = "idle"
    /\ fr_result = None
    /\ RunIdle
    /\ fd_pc = "created" /\ number = None /\ ri = 0 /\ di = 0 /\ count = 0
    /\ yielded = <<>> /\ io = <<>>

\* first request for a result: lines 152-164
FdStart ==
    /\ fd_pc = "created"
    /\ IF FindDeviceAssert(receivers, name) # None
       THEN /\ fd_pc' = "raised"
            /\ UNCHANGED <<number, ri>>
       ELSE /\ number' = SlotNumber(name)
            /\ ri' = 1
            /\ fd_pc' = "entry"
    /\ UNCHANGED <<receivers, name, frVars, runVars, di, count, yielded, io>>

\* line 172, for the receiver at ri, with the io done so far in this step
TakeCount(ioNow) ==
    /\ count' = receivers[ri].cnt
    /\ io' = Append(ioNow, IoCount(ri))
    /\ di' = 1
    /\ fd_pc' = "scan"

\* lines 166-176: the next entry of the handle list
FdEntry ==
    /\ fd_pc = "entry"
    /\ IF ri > Len(receivers)
       THEN /\ fd_pc' = "done"
            /\ UNCHANGED <<di, count, yielded, io>>
       ELSE LET r == receivers[ri] IN
            IF ~IsWired(r)
            THEN IF Truthy(number)
                 THEN LET dev == r.slots[Val(number)]
                          io1 == Append(io, IoIndex(ri, Val(number)))
                      IN IF dev # None
                         THEN /\ yielded' = Append(yielded, Yield(ri, Val(dev), "slot", 0))
                              /\ io' = io1
                              /\ fd_pc' = "slot_yield"
                              /\ UNCHANGED <<di, count>>
                         ELSE /\ TakeCount(io1)
                              /\ UNCHANGED yielded
                 ELSE /\ TakeCount(io)
                      /\ UNCHANGED yielded
            ELSE /\ io' = Append(io, IoPing(ri))
                 /\ count' = 1
                 /\ di' = 1
                 /\ fd_pc' = "scan"
                 /\ UNCHANGED yielded
    /\ UNCHANGED <<receivers, name, frVars, runVars, number, ri>>

\* resumed after the yield of line 171: line 172
FdAfterSlotYield ==
    /\ fd_pc = "slot_yield"
    /\ TakeCount(io)
    /\ UNCHANGED <<receivers, name, frVars, runVars, number, ri, yielded>>

\* lines 186-188: one device examined
CountDown ==
    /\ count' = count - 1
    /\ IF ScanBreaks(count - 1)
       THEN /\ ri' = ri + 1
            /\ fd_pc' = "entry"
            /\ UNCHANGED di
       ELSE /\ di' = di + 1
            /\ fd_pc' = "scan"
            /\ UNCHANGED ri

\* lines 178-188: the next device of the device set
FdScan ==
    /\ fd_pc = "scan"
    /\ LET ds == DeviceSet(receivers[ri]) IN
       IF di > Len(ds)
       THEN /\ ri' = ri + 1
            /\ fd_pc' = "entry"
            /\ UNCHANGED <<di, count, yielded>>
       ELSE IF DeviceMatches(ds[di], name)
            THEN /\ yielded' = Append(yielded, Yield(ri, ds[di], "scan", di))
                 /\ fd_pc' = "scan_yield"
                 /\ UNCHANGED <<ri, di, count>>
            ELSE /\ CountDown
                 /\ UNCHANGED yielded
    /\ UNCHANGED <<receivers, name, frVars, runVars, number, io>>

\* resumed after the yield of line 185: lines 186-188
FdAfterScanYield ==
    /\ fd_pc = "scan_yield"
    /\ CountDown
    /\ UNCHANGED <<receivers, name, frVars, runVars, number, yielded, io>>

\* the consumer takes the result just yielded and asks for no more
FdClose ==
    /\ fd_pc \in {"slot_yield", "scan_yield"}
    /\ fd_pc' = "closed"
    /\ UNCHANGED <<receivers, name, frVars, runVars, number, ri, di, count, yielded, io>>

NextFD ==
    \/ FdStart
    \/ FdEntry
    \/ FdAfterSlotYield
    \/ FdScan
    \/ FdAfterScanYield
    \/ FdClose

SpecFD == InitFD /\ [][NextFD]_vars

InitFR ==
    /\ receivers \in HandleLists
    /\ name \in Tokens
    /\ fr_pc = "call"
    /\ fr_result = None
    /\ FdIdle
    /\ RunIdle

CallFindReceiver ==
    /\ fr_pc = "call"
    /\ FindReceiverAssert(receivers, name) = None
    /\ fr_result' = _find_receiver(receivers, name)
    /\ fr_pc' = "returned"
    /\ UNCHANGED <<receivers, name, fdVars, runVars>>

NextFR == CallFindReceiver

SpecFR == InitFR /\ [][NextFR]_vars

(***************************************************************************)
(* run, the handle builders and the action module                          *)
(***************************************************************************)
\* the subparsers of _create_parser
actions == {"show", "probe", "profiles", "config", "pair", "unpair"}

\* the attributes parse_args gives the namespace for a subcommand: its arguments
\* and the `action` of set_defaults; add_subparsers is given no dest, so the
\* subcommand itself is stored under no attribute
NamespaceOf(act) ==
    CASE act = "show" -> {"device", "action"}
      [] act = "probe" -> {"receiver", "action"}
      [] act = "profiles" -> {"device", "profiles", "action"}
      [] act = "config" -> {"device", "setting", "value_key", "extra_subkey", "extra2",
                            "action"}
      [] act = "pair" -> {"receiver", "action"}
      [] act = "unpair" -> {"device", "action"}

\* parse_args on a command line naming subcommand sub (None: no subcommand, which
\* Python 3's argparse accepts and answers with an empty namespace)
ParseArgs(sub) == IF sub = None THEN {} ELSE NamespaceOf(Val(sub))

\* line 199: "cmd" not in args
NoCmd(ns) == "cmd" \notin ns

\* the path of the descriptor at bus position p
PathOf(p) ==
    CASE p = 1 -> "/dev/hidraw1" [] p = 2 -> "/dev/hidraw2" [] p = 3 -> "/dev/hidraw3"
      [] OTHER -> "/dev/hidraw4"

\* what the library does when asked to build a descriptor's handle: return a
\* handle, return None, or raise
BuildOutcomes == {"handle", "none", "raise"}

Buses ==
    UNION {[1..n -> [isDevice : BOOLEAN, build : BuildOutcomes]] : n \in 0..MaxBus}

\* exceptions and what the error stream gets
Exc(cls, file, line, msg) ==
    [cls |-> cls, file |-> file, line |-> line, msg |-> msg, code |-> 1, out |-> <<>>]
Msg(kind, text, trace, file, line) ==
    [kind |-> kind, text |-> text, trace |-> trace, file |-> file, line |-> line]

CliFile == "solaar/cli/__init__.py"
ModuleFile == "solaar/cli/<action>.py"
NoDeviceText == "No supported device found. Use \"lsusb\" and \"bluetoothctl devices Connected\" to list connected devices."
BuildErrorText(p) == <<"cannot open", PathOf(p)>>

\* IsInstance with SystemExit derived from Exception
IsInstanceExitIsException(exc, cls) ==
    \/ exc.cls = cls
    \/ cls = "BaseException"
    \/ (cls = "Exception" /\ exc.cls \in {"AssertionError", "SystemExit"})

\* isinstance(exc, cls) in Python's exception hierarchy
IsInstance(exc, cls) ==
    \/ exc.cls = cls
    \/ cls = "BaseException"
    \/ (cls = "Exception" /\ exc.cls = "AssertionError")

\* sys.exit(arg): SystemExit carrying a status, and a message when arg is a string
SysExitStr(m) ==
    [cls |-> "SystemExit", file |-> "", line |-> 0, msg |-> "", code |-> 1, out |-> <<m>>]
SysExitInt(n) ==
    [cls |-> "SystemExit", file |-> "", line |-> 0, msg |-> "", code |-> n, out |-> <<>>]

\* RunHandlers with `except Exception` placed before `except AssertionError`
RunHandlersGenericFirst(exc) ==
    IF IsInstance(exc, "Exception")
    THEN SysExitStr(Msg("error", <<exc.msg>>, TRUE, "", 0))
    ELSE IF IsInstance(exc, "AssertionError")
    THEN SysExitStr(Msg("assertion failed", <<>>, FALSE, exc.file, exc.line))
    ELSE exc

\* lines 217-221: the except clauses of run's try, applied to an exception raised
\* in its body; the result is the exception that leaves run
RunHandlers(exc) ==
    IF IsInstance(exc, "AssertionError")
    THEN SysExitStr(Msg("assertion failed", <<>>, FALSE, exc.file, exc.line))
    ELSE IF IsInstance(exc, "Exception")
    THEN SysExitStr(Msg("error", <<exc.msg>>, TRUE, "", 0))
    ELSE exc

\* an exception leaves run and ends the process: SystemExit writes its message
\* and gives its status, anything else is reported by the interpreter with status 1
ProcessEnds(exc) ==
    /\ run_pc' = "exited"
    /\ IF exc.cls = "SystemExit"
       THEN /\ exit_status' = Some(exc.code)
            /\ stderr' = stderr \o exc.out
       ELSE /\ exit_status' = Some(1)
            /\ stderr' = Append(stderr, Msg("traceback", <<exc.msg>>, TRUE, exc.file, exc.line))

\* line 207: the actions that enumerate receivers and devices
AllHandles(act) == act \in {"show", "probe", "config", "profiles"}

\* the bus positions base.receivers_and_devices() / base.receivers() go through
RECURSIVE EnumerationFrom(_, _)
EnumerationFrom(act, p) ==
    IF p > Len(bus) THEN <<>>
    ELSE IF AllHandles(act) \/ ~bus[p].isDevice
         THEN <<p>> \o EnumerationFrom(act, p + 1)
         ELSE EnumerationFrom(act, p + 1)

Enumeration(act) == EnumerationFrom(act, 1)

\* lines 112 / 126: the descriptor is left out by the path filter
FilteredOut(p) == hidraw_path # None /\ Val(hidraw_path) # PathOf(p)

\* the handle made from the descriptor at bus position p
Handle(p) == [path |-> PathOf(p), isDevice |-> bus[p].isDevice]

\* NoHandles as `c is None`: a list is never None
NoHandlesIsNone(hs) == Len(hs) < 0

\* line 211: not c
NoHandles(hs) == hs = <<>>

InitRun ==
    /\ receivers = <<>> /\ name = <<>>
    /\ fr_pc = "idle" /\ fr_result = None
    /\ FdIdle
    /\ cli_args \in {<<>>} \cup {<<a>> : a \in actions}
    /\ argv_action \in {None} \cup {Some(a) : a \in actions}
    /\ cli_args # <<>> => argv_action = None
    /\ hidraw_path \in {None} \cup {Some(PathOf(p)) : p \in 1..MaxBus}
    /\ bus \in Buses
    /\ run_pc = "parse" /\ action = None /\ args = {} /\ bi = 0 /\ built = <<>>
    /\ c = <<>> /\ imported = None /\ invoked = <<>> /\ fr_call = None /\ gen = None
    /\ left = None /\ exit_status = None /\ stderr = <<>>

resolverVars == <<receivers, name, frVars, fdVars>>
inputVars == <<cli_args, argv_action, hidraw_path, bus>>

\* lines 192-204
RunParse ==
    /\ run_pc = "parse"
    /\ IF cli_args # <<>>
       THEN /\ args' = ParseArgs(Some(cli_args[1]))
            /\ IF cli_args[1] \in actions
               THEN /\ action' = Some(cli_args[1])
                    /\ run_pc' = "build"
                    /\ bi' = 1
                    /\ UNCHANGED <<exit_status, stderr>>
               ELSE /\ ProcessEnds(Exc("AssertionError", CliFile, 204, ""))
                    /\ UNCHANGED <<action, bi>>
       ELSE /\ args' = ParseArgs(argv_action)
            /\ IF NoCmd(ParseArgs(argv_action))
               THEN /\ run_pc' = "exited"
                    /\ exit_status' = Some(SysExitInt(2).code)
                    /\ stderr' = stderr \o <<Msg("usage", <<>>, FALSE, "", 0),
                                             Msg("error", <<"too few arguments">>, FALSE, "", 0)>>
                    /\ UNCHANGED <<action, bi>>
               ELSE /\ action' = argv_action
                    /\ run_pc' = "build"
                    /\ bi' = 1
                    /\ UNCHANGED <<exit_status, stderr>>
    /\ UNCHANGED <<resolverVars, inputVars, built, c, imported, invoked, fr_call, gen, left>>

\* lines 208 / 210, list() drawing one more descriptor from _receivers_and_devices
\* (lines 124-139) or _receivers (lines 110-121); what the logger is given is not
\* part of the state
RunBuild ==
    /\ run_pc = "build"
    /\ LET en == Enumeration(Val(action)) IN
       IF bi > Len(en)
       THEN /\ run_pc' = "check"
            /\ UNCHANGED <<bi, built, c, exit_status, stderr>>
       ELSE LET p == en[bi] IN
            IF FilteredOut(p)
            THEN /\ bi' = bi + 1
                 /\ UNCHANGED <<run_pc, built, c, exit_status, stderr>>
            ELSE /\ built' = Append(built, p)
                 /\ IF bus[p].build = "raise"
                    THEN /\ ProcessEnds(RunHandlers(
                                SysExitStr(Msg("error", BuildErrorText(p), FALSE, "", 0))))
                         /\ UNCHANGED <<bi, c>>
                    ELSE /\ c' = IF bus[p].build = "handle" THEN Append(c, Handle(p)) ELSE c
                         /\ bi' = bi + 1
                         /\ UNCHANGED <<run_pc, exit_status, stderr>>
    /\ UNCHANGED <<resolverVars, inputVars, action, args, imported, invoked, fr_call, gen, left>>

\* lines 211-216: the check of the handle list, import_module and the call of m.run
RunDispatch ==
    /\ run_pc = "check"
    /\ IF NoHandles(c)
       THEN /\ ProcessEnds(RunHandlers(Exc("Exception", CliFile, 212, NoDeviceText)))
            /\ UNCHANGED <<imported, invoked>>
       ELSE /\ imported' = action
            /\ invoked' = Append(invoked, c)
            /\ run_pc' = "in_action"
            /\ UNCHANGED <<exit_status, stderr>>
    /\ UNCHANGED <<resolverVars, inputVars, action, args, bi, built, c, fr_call, gen, left>>

\* what an action module may hand a resolver: the handle list it was given or an
\* empty one, a token or an empty one
ModuleLists == {c, <<>>}
ModuleTokens == {<<"a">>, <<>>}

\* an exception leaves m.run, passes run's except clauses and ends the process
Leaves(exc) ==
    /\ left' = Some(exc)
    /\ ProcessEnds(RunHandlers(exc))

\* the action module calls _find_receiver: its asserts run in the call
ModFindReceiver(rs, tok) ==
    /\ run_pc = "in_action"
    /\ fr_call = None
    /\ fr_call' = Some([rs |-> rs, tok |-> tok])
    /\ IF FindReceiverAssert(rs, tok) # None
       THEN Leaves(Exc("AssertionError", CliFile, Val(FindReceiverAssert(rs, tok)), ""))
       ELSE UNCHANGED <<run_pc, left, exit_status, stderr>>
    /\ UNCHANGED <<resolverVars, inputVars, action, args, bi, built, c, imported, invoked, gen>>

\* the action module calls _find_device: a generator is made, none of the body runs
ModFindDevice(rs, tok) ==
    /\ run_pc = "in_action"
    /\ gen = None
    /\ gen' = Some([rs |-> rs, tok |-> tok, started |-> FALSE])
    /\ UNCHANGED <<resolverVars, inputVars, run_pc, action, args, bi, built, c, imported,
                   invoked, fr_call, left, exit_status, stderr>>

\* the action module asks the generator for its first result: lines 152-153 run
ModNext ==
    /\ run_pc = "in_action"
    /\ gen # None
    /\ ~Val(gen).started
    /\ gen' = Some([Val(gen) EXCEPT !.started = TRUE])
    /\ IF FindDeviceAssert(Val(gen).rs, Val(gen).tok) # None
       THEN Leaves(Exc("AssertionError", CliFile,
                       Val(FindDeviceAssert(Val(gen).rs, Val(gen).tok)), ""))
       ELSE UNCHANGED <<run_pc, left, exit_status, stderr>>
    /\ UNCHANGED <<resolverVars, inputVars, action, args, bi, built, c, imported, invoked,
                   fr_call>>

\* the action module raises: an assert of its own fails, or any other error
ModRaise(exc) ==
    /\ run_pc = "in_action"
    /\ Leaves(exc)
    /\ UNCHANGED <<resolverVars, inputVars, action, args, bi, built, c, imported, invoked,
                   fr_call, gen>>

ModuleRaises ==
    { Exc("AssertionError", ModuleFile, 1, ""), Exc("Exception", ModuleFile, 1, "failed") }

\* m.run returns, and run with it
ModReturn ==
    /\ run_pc = "in_action"
    /\ run_pc' = "returned"
    /\ UNCHANGED <<resolverVars, inputVars, action, args, bi, built, c, imported, invoked,
                   fr_call, gen, left, exit_status, stderr>>

NextRun ==
    \/ RunParse
    \/ RunBuild
    \/ RunDispatch
    \/ \E rs \in ModuleLists, tok \in ModuleTokens : ModFindReceiver(rs, tok)
    \/ \E rs \in ModuleLists, tok \in ModuleTokens : ModFindDevice(rs, tok)
    \/ ModNext
    \/ \E exc \in ModuleRaises : ModRaise(exc)
    \/ ModReturn

SpecRun == InitRun /\ [][NextRun]_vars

(***************************************************************************)
(* Properties of _find_receiver (checked under SpecFR)                      *)
(***************************************************************************)
\* entry r qualifies when only r's name and serial are lower-cased
QualifiesAsGiven(r, tok) ==
    \/ \E p \in 1..Len(r.name) : \E q \in p..Len(r.name) :
           tok = [x \in 1..(q - p + 1) |-> LowerChar(r.name[p + x - 1])]
    \/ (r.serial # None /\ Len(tok) = Len(Val(r.serial))
        /\ \A x \in 1..Len(tok) : tok[x] = LowerChar(Val(r.serial)[x]))

\* entry r qualifies when the token is lower-cased as well
QualifiesFolded(r, tok) == QualifiesAsGiven(r, [x \in 1..Len(tok) |-> LowerChar(tok[x])])

\* the result is the first entry for which Q holds, or None when there is none
FirstWhere(Q(_)) ==
    IF \E p \in 1..Len(receivers) : Q(receivers[p])
    THEN /\ fr_result # None
         /\ Val(fr_result).pos \in 1..Len(receivers)
         /\ Val(fr_result).obj = receivers[Val(fr_result).pos]
         /\ Q(receivers[Val(fr_result).pos])
         /\ \A p \in 1..(Val(fr_result).pos - 1) : ~Q(receivers[p])
    ELSE fr_result = None

\* C1 as stated: _find_receiver returns the first entry whose name contains the
\* token or whose non-null serial equals it, case-insensitively on both sides
\* (the letter case of the token does not matter), and None when none qualifies.
C1_FirstMatchCaseInsensitive ==
    fr_pc = "returned" =>
        LET Q(r) == QualifiesFolded(r, name) IN FirstWhere(Q)

\* C1 amended: _find_receiver returns the first entry whose lower-cased name
\* contains the token as given or whose non-null lower-cased serial equals the
\* token as given, and None when none qualifies; the token itself is not
\* case-folded, so a token with an upper-case letter is never found.
C1_FirstMatchTokenAsGiven ==
    fr_pc = "returned" =>
        /\ LET Q(r) == QualifiesAsGiven(r, name) IN FirstWhere(Q)
        /\ (\E x \in 1..Len(name) : name[x] \in {"A", "B"}) => fr_result = None

\* a second entry is returned on its serial alone, the first entry not qualifying
C1_Witness ==
    /\ fr_pc = "returned"
    /\ fr_result # None
    /\ Val(fr_result).pos = 2
    /\ name = <<"3", "a">>
    /\ receivers[2].serial = Some(<<"3", "A">>)

(***************************************************************************)
(* Properties of _find_device (checked under SpecFD)                        *)
(***************************************************************************)
\* the one-character token of slot n
SlotToken(n) ==
    <<CASE n = 1 -> "1" [] n = 2 -> "2" [] n = 3 -> "3" [] n = 4 -> "4"
        [] n = 5 -> "5" [] n = 6 -> "6">>

IsSlotToken(tok) == \E n \in 1..6 : tok = SlotToken(n)

IoOf(op, p) == {x \in 1..Len(io) : io[x].op = op /\ io[x].entry = p}

YieldsOf(p) == {x \in 1..Len(yielded) : yielded[x].entry = p}

\* C2: a receiver is indexed by slot exactly when the token is one character
\* standing for n in 1..6, and then at slot n; for every other token ("0", "7",
\* "8", "9", a non-digit, a longer token) no receiver is indexed, nothing is
\* yielded by slot, every result satisfies the ordinary match, and nothing raises.
C2_SlotOnlyForOneDigit1to6 ==
    /\ fd_pc # "raised"
    /\ \A x \in 1..Len(io) :
           io[x].op = "index" =>
               /\ io[x].slot \in 1..6
               /\ name = SlotToken(io[x].slot)
               /\ ~receivers[io[x].entry].isDevice
    /\ \A p \in 1..Len(receivers) :
           IoOf("count", p) # {} => (IoOf("index", p) # {} <=> IsSlotToken(name))
    /\ ~IsSlotToken(name) =>
           \A x \in 1..Len(yielded) :
               /\ yielded[x].via = "scan"
               /\ \/ name = [y \in 1..Len(Val(yielded[x].dev.serial)) |->
                                LowerChar(Val(yielded[x].dev.serial)[y])]
                  \/ name = [y \in 1..Len(yielded[x].dev.codename) |->
                                LowerChar(yielded[x].dev.codename[y])]
                  \/ name = [y \in 1..Len(yielded[x].dev.kind) |->
                                LowerChar(yielded[x].dev.kind[y])]
                  \/ LET Q(r) == QualifiesAsGiven([r EXCEPT !.serial = None], name)
                     IN Q(yielded[x].dev)

\* with the token "6" two receivers were indexed at slot 6 and one had a device there
C2_Witness ==
    /\ fd_pc = "done"
    /\ name = <<"6">>
    /\ Len(receivers) = 2
    /\ IoOf("index", 1) # {} /\ IoOf("index", 2) # {}
    /\ \E x \in 1..Len(yielded) : yielded[x].via = "slot"

\* C3: a traversal yields at most count() devices from a receiver entry, whatever
\* the receiver enumerates.  Stated for the scan of lines 178-188, the part the
\* count bounds: the results of the scan alone already number at most count().
C3_AtMostCountYields ==
    \A p \in 1..Len(receivers) :
        ~receivers[p].isDevice =>
            Cardinality({x \in YieldsOf(p) : yielded[x].via = "scan"}) <= receivers[p].cnt

\* C4: with the one-character token of n in 1..6, a receiver with a device at
\* slot n yields that device as its first result, whether or not the device
\* matches the token, and it does so before count() and the scan of that receiver.
C4_SlotDeviceFirst ==
    \A p \in 1..Len(receivers) : \A n \in 1..6 :
        ( /\ ~receivers[p].isDevice
          /\ name = SlotToken(n)
          /\ receivers[p].slots[n] # None
          /\ (ri > p \/ (ri = p /\ fd_pc # "entry")) )
        => /\ YieldsOf(p) # {}
           /\ LET first == CHOOSE x \in YieldsOf(p) : \A y \in YieldsOf(p) : x <= y
              IN /\ yielded[first].dev = Val(receivers[p].slots[n])
                 /\ yielded[first].via = "slot"
                 /\ p = 1 => first = 1
           /\ \A x \in IoOf("count", p) : \E y \in IoOf("index", p) : y < x

\* the slot device came first although nothing of it matches the token
C4_Witness ==
    /\ fd_pc = "done"
    /\ yielded # <<>>
    /\ yielded[1].via = "slot"
    /\ name = <<"5">>
    /\ ~DeviceMatches(yielded[1].dev, name)
    /\ Len(yielded) = 1

\* (entry, position) of yield x comes before that of yield y
YieldBefore(x, y) ==
    \/ yielded[x].entry < yielded[y].entry
    \/ (yielded[x].entry = yielded[y].entry /\ yielded[x].at < yielded[y].at)

NameContains(dev, tok) ==
    LET Q(r) == QualifiesAsGiven([r EXCEPT !.serial = None], tok) IN Q(dev)

\* the devices entry p holds: the wired device itself, or what the receiver enumerates
DevicesOf(p) == IF receivers[p].isDevice THEN <<receivers[p]>> ELSE receivers[p].devs

ScanYielded(p, k) ==
    \E x \in 1..Len(yielded) :
        yielded[x] = [entry |-> p, dev |-> DevicesOf(p)[k], via |-> "scan", at |-> k]

\* C5 as stated: for a lower-case token that is no slot number, a complete
\* traversal yields every device of every entry whose name contains the token,
\* skipping none, in handle-list order and then enumeration order.
C5_EveryNameMatchYielded ==
    (fd_pc = "done" /\ ~IsSlotToken(name) /\ name = Lower(name)) =>
        /\ \A p \in 1..Len(receivers) : \A k \in 1..Len(DevicesOf(p)) :
               NameContains(DevicesOf(p)[k], name) => ScanYielded(p, k)
        /\ \A x, y \in 1..Len(yielded) : x < y => YieldBefore(x, y)

\* C5 amended: a complete traversal yields every device whose lower-cased name
\* contains the token as given among the wired devices and the first count()
\* devices each receiver enumerates; a receiver with 1 <= count() enumerating more
\* than count() devices has the later ones skipped.  Scan results come in
\* handle-list order and, within a receiver, in enumeration order.
C5_NameMatchesWithinCount ==
    fd_pc = "done" =>
        /\ \A p \in 1..Len(receivers) : \A k \in 1..Len(DevicesOf(p)) :
               LET bound == IF receivers[p].isDevice THEN 1 ELSE receivers[p].cnt
               IN /\ (k <= bound /\ NameContains(DevicesOf(p)[k], name))
                        => ScanYielded(p, k)
                  /\ (bound >= 1 /\ k > bound) => ~ScanYielded(p, k)
        /\ \A x, y \in 1..Len(yielded) :
               (x < y /\ yielded[x].via = "scan" /\ yielded[y].via = "scan")
                   => YieldBefore(x, y)

\* two entries each gave a name match, the second device of a receiver among them
C5_Witness ==
    /\ fd_pc = "done"
    /\ name = <<"a">>
    /\ Len(receivers) = 2
    /\ \E x, y \in 1..Len(yielded) :
           /\ yielded[x].entry = 1 /\ yielded[x].at = 2 /\ yielded[x].via = "scan"
           /\ yielded[y].entry = 2 /\ yielded[y].via = "scan"

\* C10: ping() is called on wired entries only, once per wired entry reached and
\* before the entry is tested; when the generator stands at a yield, or was
\* dropped there, no entry after the one that gave the result has been pinged,
\* indexed or asked for its count.
C10_PingWiredOnlyAndLazy ==
    /\ \A x \in 1..Len(io) : io[x].op = "ping" => receivers[io[x].entry].isDevice
    /\ \A p \in 1..Len(receivers) :
           /\ Cardinality(IoOf("ping", p)) <= 1
           /\ (receivers[p].isDevice /\ (ri > p \/ (ri = p /\ fd_pc # "entry")))
                  => Cardinality(IoOf("ping", p)) = 1
           /\ (receivers[p].isDevice /\ YieldsOf(p) # {}) => IoOf("ping", p) # {}
    /\ fd_pc \in {"slot_yield", "scan_yield", "closed"} =>
           \A x \in 1..Len(io) : io[x].entry <= yielded[Len(yielded)].entry
    /\ \A x \in 1..Len(io) : io[x].entry <= ri

\* the consumer took the result of a first wired entry and stopped: the second
\* wired entry was never pinged
C10_Witness ==
    /\ fd_pc = "closed"
    /\ Len(receivers) = 2
    /\ receivers[1].isDevice /\ receivers[2].isDevice
    /\ io = <<IoPing(1)>>
    /\ Len(yielded) = 1

(***************************************************************************)
(* Properties of run (checked under SpecRun)                                *)
(***************************************************************************)
\* the descriptor at bus position p is one run builds: its enumeration holds it
\* and the path filter admits it
Admitted(p) ==
    /\ action # None
    /\ (Val(action) \in {"show", "probe", "config", "profiles"} \/ ~bus[p].isDevice)
    /\ (hidraw_path = None \/ hidraw_path = Some(PathOf(p)))

\* C6: when building a descriptor's handle raises, the process ends there with
\* status 1 and the one message "solaar: error: <exception message>": nothing is
\* built after it, no action module is loaded or invoked, and run's except
\* clauses do not report it again; an action module is invoked only when no
\* admitted descriptor fails to build.
C6_BuildFailureIsFatal ==
    /\ \A x \in 1..Len(built) :
           bus[built[x]].build = "raise" =>
               /\ x = Len(built)
               /\ run_pc = "exited"
               /\ exit_status = Some(1)
               /\ stderr = <<[kind |-> "error", text |-> <<"cannot open", PathOf(built[x])>>,
                              trace |-> FALSE, file |-> "", line |-> 0]>>
               /\ imported = None
               /\ invoked = <<>>
    /\ \A p \in 1..Len(bus) :
           (Admitted(p) /\ bus[p].build = "raise") => (invoked = <<>> /\ run_pc # "returned")

\* a first handle was built, the second build raised: the one-handle list went nowhere
C6_Witness ==
    /\ run_pc = "exited"
    /\ Len(built) = 2
    /\ bus[built[2]].build = "raise"
    /\ Len(c) = 1

\* C7: when enumeration and building end with an empty handle list, run exits
\* with a non-zero status and the generic error message carrying "No supported
\* device found...", and no action module is loaded or invoked.
C7_EmptyHandleListFails ==
    /\ (imported # None \/ invoked # <<>> \/ run_pc \in {"in_action", "returned"})
           => (c # <<>> /\ \A x \in 1..Len(invoked) : invoked[x] # <<>>)
    /\ ( /\ c = <<>>
         /\ action # None
         /\ \A p \in 1..Len(bus) : Admitted(p) => bus[p].build # "raise"
         /\ run_pc \notin {"build", "check"} )
       => /\ run_pc = "exited"
          /\ exit_status \notin {None, Some(0)}
          /\ stderr = <<[kind |-> "error", text |-> <<NoDeviceText>>, trace |-> TRUE,
                         file |-> "", line |-> 0]>>
          /\ imported = None
          /\ invoked = <<>>

\* every build returned no usable handle, and run exited on the empty list
C7_Witness ==
    /\ run_pc = "exited"
    /\ Len(built) = 2
    /\ c = <<>>
    /\ \A x \in 1..Len(built) : bus[built[x]].build = "none"

\* C8: invoked with no cli tokens, run exits with status 2 only when the parse of
\* the process command line determined no action; when it determined one, run
\* goes on with that action.
C8_ProceedsWhenActionParsed ==
    (cli_args = <<>> /\ argv_action # None /\ run_pc # "parse") =>
        /\ exit_status # Some(2)
        /\ action = argv_action

\* the resolver calls the action module made with an empty list or token
BadReceiverCall == fr_call # None /\ (Val(fr_call).rs = <<>> \/ Val(fr_call).tok = <<>>)
BadDeviceCall == gen # None /\ (Val(gen).rs = <<>> \/ Val(gen).tok = <<>>)

AssertionReported(file, line) ==
    /\ run_pc = "exited"
    /\ exit_status = Some(1)
    /\ stderr = <<[kind |-> "assertion failed", text |-> <<>>, trace |-> FALSE,
                   file |-> file, line |-> line]>>

\* C9 as stated: once the action module has called _find_receiver or _find_device
\* with an empty token or an empty handle list, the process ends with the
\* "assertion failed" message of the violated assert and in no other way.  Stated
\* for the runs in which the action module raises nothing of its own.
C9_BadCallAlwaysAsserts ==
    ( /\ BadReceiverCall \/ BadDeviceCall
      /\ run_pc \in {"returned", "exited"}
      /\ (left = None \/ Val(left).file = "solaar/cli/__init__.py") )
    => \E line \in {143, 144, 152, 153} : AssertionReported("solaar/cli/__init__.py", line)

\* C9 amended: an AssertionError that leaves the action module ends the process
\* with "assertion failed: <file> line <n>" naming the failed assert, never with
\* the generic message, and every other Exception leaving it ends the process
\* with the generic error message.  _find_receiver raises it in the call made
\* with an empty list or token; _find_device checks nothing when called, and
\* raises it when its result is first asked for.
C9_AssertionsReportedWhenRaised ==
    /\ left # None =>
           IF Val(left).cls = "AssertionError"
           THEN AssertionReported(Val(left).file, Val(left).line)
           ELSE /\ run_pc = "exited"
                /\ exit_status = Some(1)
                /\ stderr = <<[kind |-> "error", text |-> <<Val(left).msg>>, trace |-> TRUE,
                               file |-> "", line |-> 0]>>
    /\ BadReceiverCall =>
           AssertionReported("solaar/cli/__init__.py",
                             IF Val(fr_call).rs = <<>> THEN 143 ELSE 144)
    /\ (BadDeviceCall /\ Val(gen).started) =>
           AssertionReported("solaar/cli/__init__.py", IF Val(gen).rs = <<>> THEN 152 ELSE 153)
    /\ (gen # None /\ ~Val(gen).started) =>
           (left = None \/ Val(left).file # "solaar/cli/__init__.py" \/ Val(left).line < 152)

\* _find_device was called with an empty token, and the assert of line 153 was
\* reported when the action module asked for the first result
C9_Witness ==
    /\ AssertionReported("solaar/cli/__init__.py", 153)
    /\ gen # None
    /\ Val(gen).started
    /\ Val(gen).rs # <<>>

====
